---- MODULE Spec2Model ----
(***************************************************************************)
(* A model of osrs_item_manager.py: the Item dataclass with its lazily     *)
(* cached official-GE payload, and OsrsItemManager with its item_info and  *)
(* price_info maps, get_item / get_items, the two filters and the GE       *)
(* metric extractors.                                                      *)
(*                                                                         *)
(* Python values are tagged records, so that None, False, 0, '' and {}     *)
(* stay different values that share only their truthiness:                 *)
(*   [t |-> "none"]  [t |-> "bool", b]  [t |-> "int", i]                   *)
(*   [t |-> "float", num, den, e]  [t |-> "str", s]  [t |-> "dict", d]     *)
(*   [t |-> "Item", ...]                                                   *)
(* A str is a sequence of one-character strings.  A call's outcome is      *)
(* [kind |-> "return", value] or [kind |-> "raise", exc].                  *)
(***************************************************************************)
EXTENDS Integers, Sequences, FiniteSets, TLC

VARIABLES
    item_info,   \* OsrsItemManager.item_info: {str(id): metadata}
    price_info,  \* OsrsItemManager.price_info: {Timestamp: {item_id: data}}
    items,       \* a list of Item instances held by the caller
    ge_data,     \* Item._ge_data of the record the GE calls are made on
    fetches,     \* number of requests made to the official GE endpoint
    ret          \* the last call: [op, args, out], and for a GE call the cache
                 \* state it found (was) and the responses it received (reqs)

vars == <<item_info, price_info, items, ge_data, fetches, ret>>

----------------------------------------------------------------------------
(* Bounds of the model *)

MaxFetches == 3
MaxListing == 2
MaxItems == 2
MaxAttrs == 2
MaxTimestamps == 1
MaxPrice == 3

----------------------------------------------------------------------------
(* Python values *)

NoneV == [t |-> "none"]
BoolV(b) == [t |-> "bool", b |-> b]
IntV(i) == [t |-> "int", i |-> i]
StrV(s) == [t |-> "str", s |-> s]
DictV(d) == [t |-> "dict", d |-> d]

Abs(n) == IF n < 0 THEN -n ELSE n

RECURSIVE Gcd(_, _)
Gcd(a, b) == IF b = 0 THEN a ELSE Gcd(b, a % b)

RECURSIVE TenFactors(_)
TenFactors(n) == IF n # 0 /\ n % 10 = 0 THEN 1 + TenFactors(n \div 10) ELSE 0

RECURSIVE Pow10(_)
Pow10(k) == IF k = 0 THEN 1 ELSE 10 * Pow10(k - 1)

\* A float, kept exactly as (num / den) * 10^e in canonical form: den > 0, num
\* and den coprime and neither a multiple of 10; zero is 0/1 * 10^0.
FloatE(num, den, e) ==
    LET g == Gcd(Abs(num), Abs(den))
        s == IF den < 0 THEN -1 ELSE 1
        n == s * (num \div g)
        d == s * (den \div g)
        kn == TenFactors(n)
        kd == TenFactors(d)
    IN  IF num = 0
        THEN [t |-> "float", num |-> 0, den |-> 1, e |-> 0]
        ELSE [t |-> "float", num |-> n \div Pow10(kn), den |-> d \div Pow10(kd),
              e |-> e + kn - kd]

FloatV(num, den) == FloatE(num, den, 0)

Return(v) == [kind |-> "return", value |-> v]
Raise(e) == [kind |-> "raise", exc |-> e]

\* The rest of an expression, evaluated only when its first part returned.
Then(o, F(_)) == IF o.kind = "raise" THEN o ELSE F(o.value)

\* bool(v)
Truthy(v) ==
    CASE v.t = "none" -> FALSE
      [] v.t = "bool" -> v.b
      [] v.t = "int" -> v.i # 0
      [] v.t = "float" -> v.num # 0
      [] v.t = "str" -> v.s # <<>>
      [] v.t = "dict" -> DOMAIN v.d # {}
      [] OTHER -> TRUE

\* data[key]
Subscript(data, key) ==
    IF data.t = "dict"
    THEN IF key \in DOMAIN data.d THEN Return(data.d[key]) ELSE Raise("KeyError")
    ELSE Raise("TypeError")

EmptyDict == DictV(<<>>)

----------------------------------------------------------------------------
(* str methods *)

Digits == <<"0", "1", "2", "3", "4", "5", "6", "7", "8", "9">>

IsDigit(c) == \E k \in 1..10 : Digits[k] = c
DigitVal(c) == (CHOOSE k \in 1..10 : Digits[k] = c) - 1

\* str(n) for an int n >= 0
RECURSIVE Str(_)
Str(n) == IF n < 10 THEN <<Digits[n + 1]>> ELSE Str(n \div 10) \o <<Digits[(n % 10) + 1]>>

\* s.strip(c) for a one-character c
RECURSIVE LStrip(_, _)
LStrip(s, c) == IF s # <<>> /\ Head(s) = c THEN LStrip(Tail(s), c) ELSE s

RECURSIVE RStrip(_, _)
RStrip(s, c) ==
    IF s # <<>> /\ s[Len(s)] = c THEN RStrip(SubSeq(s, 1, Len(s) - 1), c) ELSE s

Strip(s, c) == RStrip(LStrip(s, c), c)

RECURSIVE DigitsVal(_)
DigitsVal(s) == IF s = <<>> THEN 0 ELSE 10 * DigitsVal(SubSeq(s, 1, Len(s) - 1)) + DigitVal(s[Len(s)])

AllDigits(s) == \A k \in 1..Len(s) : IsDigit(s[k])

\* float(s) for the decimal literals [sign] digits [. digits]; anything else
\* raises ValueError.
ToFloat(s) ==
    LET signed == s # <<>> /\ Head(s) \in {"+", "-"}
        sign == IF signed /\ Head(s) = "-" THEN -1 ELSE 1
        body == IF signed THEN Tail(s) ELSE s
        dots == {k \in 1..Len(body) : body[k] = "."}
        ip == IF dots = {} THEN body ELSE SubSeq(body, 1, (CHOOSE k \in dots : TRUE) - 1)
        fp == IF dots = {} THEN <<>> ELSE SubSeq(body, (CHOOSE k \in dots : TRUE) + 1, Len(body))
    IN  IF Cardinality(dots) <= 1 /\ AllDigits(ip) /\ AllDigits(fp) /\ Len(ip) + Len(fp) > 0
        THEN Return(FloatV(sign * (DigitsVal(ip) * Pow10(Len(fp)) + DigitsVal(fp)), Pow10(Len(fp))))
        ELSE Raise("ValueError")

LowerCase == <<"a", "b", "c", "d", "e", "f", "g", "h", "i", "j", "k", "l", "m",
               "n", "o", "p", "q", "r", "s", "t", "u", "v", "w", "x", "y", "z">>

UpperCase == <<"A", "B", "C", "D", "E", "F", "G", "H", "I", "J", "K", "L", "M",
               "N", "O", "P", "Q", "R", "S", "T", "U", "V", "W", "X", "Y", "Z">>

CharLower(c) ==
    IF \E k \in 1..26 : UpperCase[k] = c
    THEN LowerCase[CHOOSE k \in 1..26 : UpperCase[k] = c]
    ELSE c

CharUpper(c) ==
    IF \E k \in 1..26 : LowerCase[k] = c
    THEN UpperCase[CHOOSE k \in 1..26 : LowerCase[k] = c]
    ELSE c

\* s.lower()
StrLower(s) == [k \in 1..Len(s) |-> CharLower(s[k])]

\* s.upper()
StrUpper(s) == [k \in 1..Len(s) |-> CharUpper(s[k])]

\* c in s, for a one-character c
Contains(s, c) == \E k \in 1..Len(s) : s[k] = c

\* s.replace(c, '') for a one-character c
RECURSIVE StrRemove(_, _)
StrRemove(s, c) ==
    IF s = <<>> THEN <<>>
    ELSE IF Head(s) = c THEN StrRemove(Tail(s), c)
    ELSE <<Head(s)>> \o StrRemove(Tail(s), c)

\* int(s) for the literals [sign] digits; anything else raises ValueError.
ToInt(s) ==
    LET signed == s # <<>> /\ Head(s) \in {"+", "-"}
        sign == IF signed /\ Head(s) = "-" THEN -1 ELSE 1
        body == IF signed THEN Tail(s) ELSE s
    IN  IF body # <<>> /\ AllDigits(body)
        THEN Return(IntV(sign * DigitsVal(body)))
        ELSE Raise("ValueError")

\* f * 10^k for a float f
FloatScale(f, k) == FloatE(f.num, f.den, f.e + k)

\* value_to_float
value_to_float(x) ==
    IF x.t = "float" \/ x.t = "int"
    THEN Return(x)
    ELSE LET u == StrRemove(StrUpper(x.s), ",")
             Scaled(c, k) == Then(ToFloat(StrRemove(u, c)), LAMBDA f : Return(FloatScale(f, k)))
         IN  IF Contains(u, "K")
             THEN IF Len(u) > 1 THEN Scaled("K", 3) ELSE Return(FloatE(1, 1, 3))
             ELSE IF Contains(u, "M")
             THEN IF Len(u) > 1 THEN Scaled("M", 6) ELSE Return(FloatE(1, 1, 6))
             ELSE IF Contains(u, "B")
             THEN Scaled("B", 9)
             ELSE ToFloat(u)

\* s.replace(a, b) for one-character a and b
StrReplace(s, a, b) == [k \in 1..Len(s) |-> IF s[k] = a THEN b ELSE s[k]]

----------------------------------------------------------------------------
(* The official GE endpoint and the per-Item cache *)

GeTimestamp == {"current", "today", "day30", "day90", "day180"}

\* Arguments a caller can pass as ge_timestamp: the members of GeTimestamp and,
\* as a value of another class, Timestamp.LATEST.
Windows == {[cls |-> "GeTimestamp", value |-> v] : v \in GeTimestamp}
             \cup {[cls |-> "Timestamp", value |-> "latest"]}

Positive == <<"p", "o", "s", "i", "t", "i", "v", "e">>
Neutral == <<"n", "e", "u", "t", "r", "a", "l">>
Negative == <<"n", "e", "g", "a", "t", "i", "v", "e">>

Change(c, tr) == DictV([change |-> StrV(c), trend |-> StrV(tr)])

\* What session.get(endpoint).json()['item'] can be.  PayloadLive has the shape
\* the live service answers with (a trend under every window), PayloadDoc the
\* shape with only a price under current and today, PayloadEmpty is {}.
PayloadLive ==
    DictV([current |-> DictV([trend |-> StrV(Neutral), price |-> StrV(<<"1", ".", "2", "k">>)]),
           today |-> DictV([trend |-> StrV(Positive), price |-> StrV(<<"+", "5">>)]),
           day30 |-> Change(<<"+", "5", ".", "0", "%">>, Positive),
           day90 |-> Change(<<"-", "3", "2", ".", "0", "%">>, Negative),
           day180 |-> Change(<<"0", ".", "0", "%">>, Neutral)])

PayloadDoc ==
    DictV([current |-> DictV([price |-> IntV(22)]),
           today |-> DictV([price |-> IntV(0)]),
           day30 |-> Change(<<"+", "1", ".", "0", "%">>, Positive),
           day90 |-> Change(<<"+", "1", "%">>, Positive),
           day180 |-> Change(<<"n", "/", "a">>, Neutral)])

PayloadEmpty == EmptyDict

Payloads == {PayloadLive, PayloadDoc, PayloadEmpty}

\* A call on the record: its outcome, the record's _ge_data afterwards and the
\* responses of the requests it made, in order.
Call(out, cache, reqs) == [out |-> out, cache |-> cache, reqs |-> reqs]

\* Item._update_ge_data; resp is session.get(...).json()['item'].
Item_update_ge_data(cache, resp) == Call(Return(resp), resp, <<resp>>)

\* Item._get_ge_data
Item_get_ge_data(cache, resp) ==
    IF Truthy(cache)
    THEN Call(Return(cache), cache, <<>>)
    ELSE Item_update_ge_data(cache, resp)

\* _get_ge_data with force_latest ignored: every read is a lazy one.
Manager_get_ge_data_lazy(cache, force_latest, resp) == Item_get_ge_data(cache, resp)

\* OsrsItemManager._get_ge_data
Manager_get_ge_data(cache, force_latest, resp) ==
    IF force_latest
    THEN Item_update_ge_data(cache, resp)
    ELSE Item_get_ge_data(cache, resp)

\* OsrsItemManager.get_ge_price_change
get_ge_price_change(cache, ge_timestamp, force_latest, resp) ==
    IF ge_timestamp.cls # "GeTimestamp" \/ ge_timestamp.value = "current"
         \/ ge_timestamp.value = "today"
    THEN Call(Raise("NameError"), cache, <<>>)
    ELSE LET r == Manager_get_ge_data(cache, force_latest, resp)
             out == Then(r.out, LAMBDA data :
                    Then(Subscript(data, ge_timestamp.value), LAMBDA w :
                    Then(Subscript(w, "change"), LAMBDA c :
                    ToFloat(Strip(c.s, "%")))))
         IN  Call(out, r.cache, r.reqs)

\* OsrsItemManager.get_ge_trend
get_ge_trend(cache, ge_timestamp, force_latest, resp) ==
    LET r == Manager_get_ge_data(cache, force_latest, resp)
        out == Then(r.out, LAMBDA data :
               Then(Subscript(data, ge_timestamp.value), LAMBDA w :
               Subscript(w, "trend")))
    IN  Call(out, r.cache, r.reqs)

\* int(x)
PyInt(x) ==
    CASE x.t = "int" -> Return(x)
      [] x.t = "str" -> ToInt(x.s)
      [] OTHER -> Raise("TypeError")

\* OsrsItemManager.get_ge_today_price_change
get_ge_today_price_change(cache, force_latest, resp) ==
    LET r == Manager_get_ge_data(cache, force_latest, resp)
        out == Then(r.out, LAMBDA data :
               Then(Subscript(data, "today"), LAMBDA w :
               Then(Subscript(w, "price"), LAMBDA p : PyInt(p))))
    IN  Call(out, r.cache, r.reqs)

\* OsrsItemManager.get_ge_current_price
get_ge_current_price(cache, force_latest, resp) ==
    LET r == Manager_get_ge_data(cache, force_latest, resp)
        out == Then(r.out, LAMBDA data :
               Then(Subscript(data, "current"), LAMBDA w :
               Then(Subscript(w, "price"), LAMBDA p : value_to_float(p))))
    IN  Call(out, r.cache, r.reqs)

\* UNPOPULATED while _ge_data is None, POPULATED once a payload is stored.
CacheState(cache) == IF cache = NoneV THEN "UNPOPULATED" ELSE "POPULATED"

\* The effect of one GE call on the record and on the request count.
GeCall(op, args, r) ==
    /\ fetches + Len(r.reqs) <= MaxFetches
    /\ ge_data' = r.cache
    /\ fetches' = fetches + Len(r.reqs)
    /\ ret' = [op |-> op, args |-> args, was |-> CacheState(ge_data),
               reqs |-> r.reqs, out |-> r.out]
    /\ UNCHANGED <<item_info, price_info, items>>

\* manager._get_ge_data(item, False): the lazy read
FetchOrReuse ==
    \E resp \in Payloads :
        GeCall("fetch_or_reuse", <<FALSE>>, Manager_get_ge_data(ge_data, FALSE, resp))

\* manager._get_ge_data(item, True): the forced read
ForceRefresh ==
    \E resp \in Payloads :
        GeCall("force_refresh", <<TRUE>>, Manager_get_ge_data(ge_data, TRUE, resp))

GetGePriceChange ==
    \E resp \in Payloads, w \in Windows, force \in BOOLEAN :
        GeCall("get_ge_price_change", <<force, w>>, get_ge_price_change(ge_data, w, force, resp))

GetGeTrend ==
    \E resp \in Payloads, w \in Windows, force \in BOOLEAN :
        GeCall("get_ge_trend", <<force, w>>, get_ge_trend(ge_data, w, force, resp))

GetGeTodayPriceChange ==
    \E resp \in Payloads, force \in BOOLEAN :
        GeCall("get_ge_today_price_change", <<force>>,
               get_ge_today_price_change(ge_data, force, resp))

GetGeCurrentPrice ==
    \E resp \in Payloads, force \in BOOLEAN :
        GeCall("get_ge_current_price", <<force>>, get_ge_current_price(ge_data, force, resp))

NoCall == [op |-> "none", args |-> <<>>, out |-> Return(NoneV)]

\* One freshly constructed Item (Item.__post_init__ sets _ge_data to None) and
\* no request made yet.
InitGe ==
    /\ item_info = EmptyDict
    /\ price_info = EmptyDict
    /\ items = <<>>
    /\ ge_data = NoneV
    /\ fetches = 0
    /\ ret = NoCall

NextGe ==
    \/ FetchOrReuse
    \/ ForceRefresh
    \/ GetGePriceChange
    \/ GetGeTrend
    \/ GetGeTodayPriceChange
    \/ GetGeCurrentPrice

SpecGe == InitGe /\ [][NextGe]_vars

----------------------------------------------------------------------------
(* The Item dataclass *)

\* Timestamp, in definition order, by wire value
Timestamp == <<"latest", "5m", "1h", "6h">>

LATEST == Timestamp[1]

\* [ts for ts in Timestamp][1:]
AveragedTimestamps == Tail(Timestamp)

LinkPrefix == <<"h", "t", "t", "p", "s", ":", "/", "/", "p", "l", "a", "t", "i", "n", "u",
                "m", "t", "o", "k", "e", "n", "s", ".", "c", "o", "m", "/", "i", "t", "e",
                "m", "/">>

EndpointPrefix == <<"h", "t", "t", "p", ":", "/", "/", "s", "e", "r", "v", "i", "c", "e", "s",
                    ".", "r", "u", "n", "e", "s", "c", "a", "p", "e", ".", "c", "o", "m", "/",
                    "m", "=", "i", "t", "e", "m", "d", "b", "_", "o", "l", "d", "s", "c", "h",
                    "o", "o", "l", "/", "a", "p", "i", "/", "c", "a", "t", "a", "l", "o", "g",
                    "u", "e", "/", "d", "e", "t", "a", "i", "l", ".", "j", "s", "o", "n", "?",
                    "i", "t", "e", "m", "=">>

\* The margin / roi branch of Item.__post_init__
Margin(high_price, low_price) ==
    IF Truthy(high_price) /\ Truthy(low_price)
    THEN [margin |-> IntV(high_price.i - low_price.i),
          roi |-> FloatE(high_price.i - low_price.i, low_price.i, 2)]
    ELSE [margin |-> NoneV, roi |-> NoneV]

\* The positional arguments of Item(...), in the order of the fields
ItemArgs(id, members, lowalch, limit, npc_value, highalch, name, high_price, low_price, series) ==
    [id |-> id, members |-> members, lowalch |-> lowalch, limit |-> limit,
     npc_value |-> npc_value, highalch |-> highalch, name |-> name,
     high_price |-> high_price, low_price |-> low_price,
     avg_high_price |-> series[1], high_price_volume |-> series[2],
     avg_low_price |-> series[3], low_price_volume |-> series[4]]

\* Item(...): the generated __init__ followed by __post_init__.  name.lower()
\* raises AttributeError when name is not a str.
Item(a) ==
    LET m == Margin(a.high_price, a.low_price)
    IN  IF a.name.t # "str"
        THEN Raise("AttributeError")
        ELSE Return([t |-> "Item",
                     id |-> a.id,
                     members |-> a.members,
                     lowalch |-> a.lowalch,
                     limit |-> a.limit,
                     npc_value |-> a.npc_value,
                     highalch |-> a.highalch,
                     name |-> a.name,
                     high_price |-> a.high_price,
                     low_price |-> a.low_price,
                     avg_high_price |-> a.avg_high_price,
                     high_price_volume |-> a.high_price_volume,
                     avg_low_price |-> a.avg_low_price,
                     low_price_volume |-> a.low_price_volume,
                     margin |-> m.margin,
                     roi |-> m.roi,
                     platinumtokens_link |->
                         StrV(LinkPrefix \o StrReplace(StrLower(a.name.s), " ", "-")),
                     ge_data_endpoint |-> StrV(EndpointPrefix \o a.id.s),
                     ge_data |-> NoneV])

----------------------------------------------------------------------------
(* OsrsItemManager: item_info, price_info, get_item, get_items *)

\* _value_or_none: data[key], or None on KeyError and on TypeError
value_or_none(data, key) ==
    LET o == Subscript(data, key)
    IN  IF o.kind = "return" THEN o.value ELSE NoneV

\* Objects of the /mapping listing
MetaWhip ==
    DictV([id |-> IntV(4), members |-> BoolV(TRUE), lowalch |-> IntV(7), limit |-> IntV(70),
           value |-> IntV(18), highalch |-> IntV(10), name |-> StrV(<<"A", " ", "w">>)])

MetaCoins ==
    DictV([id |-> IntV(5), members |-> BoolV(FALSE), lowalch |-> IntV(0), limit |-> IntV(9),
           value |-> IntV(1), highalch |-> IntV(0), name |-> StrV(<<"C", "o">>)])

MetaNoLimit ==
    DictV([id |-> IntV(6), members |-> BoolV(TRUE), lowalch |-> IntV(2),
           value |-> IntV(5), highalch |-> IntV(3), name |-> StrV(<<"b", "w">>)])

MetaNoName ==
    DictV([id |-> IntV(7), members |-> BoolV(FALSE), lowalch |-> IntV(1), limit |-> IntV(5),
           value |-> IntV(3), highalch |-> IntV(2)])

Metas == {MetaWhip, MetaCoins, MetaNoLimit, MetaNoName}

\* The listings the /mapping endpoint can answer with
Listings == UNION {[1..n -> Metas] : n \in 0..MaxListing}

\* {str(item_info['id']): item_info for item_info in listing}, with the keys in
\* insertion order
RECURSIVE ItemInfoOf(_)
ItemInfoOf(listing) ==
    IF listing = <<>>
    THEN [t |-> "dict", d |-> <<>>, keys |-> <<>>]
    ELSE LET rest == ItemInfoOf(SubSeq(listing, 1, Len(listing) - 1))
             m == listing[Len(listing)]
             key == StrV(Str(m.d.id.i))
         IN  [t |-> "dict",
              d |-> (key :> m) @@ rest.d,
              keys |-> IF key \in DOMAIN rest.d THEN rest.keys ELSE Append(rest.keys, key)]

Quote(high, low) == DictV([high |-> high, low |-> low])

Averages(ah, hv, al, lv) ==
    DictV([avgHighPrice |-> ah, highPriceVolume |-> hv, avgLowPrice |-> al,
           lowPriceVolume |-> lv])

\* The 'data' member of what the /latest endpoint can answer with
LatestA ==
    DictV((StrV(Str(4)) :> Quote(IntV(22), IntV(21)))
          @@ (StrV(Str(5)) :> Quote(IntV(3), NoneV))
          @@ (StrV(Str(7)) :> Quote(IntV(0), IntV(2))))

LatestB ==
    DictV((StrV(Str(4)) :> Quote(IntV(30), IntV(20)))
          @@ (StrV(Str(6)) :> DictV([high |-> IntV(5)])))

LatestSets == {LatestA, LatestB}

\* The 'data' member of what the /5m, /1h and /6h endpoints can answer with
AvgA ==
    DictV((StrV(Str(4)) :> Averages(IntV(22), IntV(3), IntV(21), IntV(0)))
          @@ (StrV(Str(7)) :> Averages(IntV(1), IntV(1), IntV(1), IntV(1))))

AvgB ==
    DictV((StrV(Str(4)) :> Averages(IntV(25), IntV(8), IntV(19), IntV(6)))
          @@ (StrV(Str(5)) :> Averages(NoneV, IntV(0), IntV(2), IntV(4)))
          @@ (StrV(Str(6)) :> DictV([avgHighPrice |-> IntV(5), highPriceVolume |-> IntV(1),
                                     avgLowPrice |-> IntV(4)])))

AvgEmpty == EmptyDict

AvgSets == {AvgA, AvgB, AvgEmpty}

\* What the requests of one update_prices call answer: a dataset per
\* Timestamp, in order; the call reaches only the first `answered` of them, the
\* next request raising.
PriceResponses ==
    {r \in [1..Len(Timestamp) -> LatestSets \cup AvgSets] :
        /\ r[1] \in LatestSets
        /\ \A k \in 2..Len(Timestamp) : r[k] \in AvgSets}

\* self.price_info after the loop of update_prices has stored n datasets
PriceInfoAfter(resps, n) == DictV([k \in {Timestamp[j] : j \in 1..n} |->
                                     resps[CHOOSE j \in 1..n : Timestamp[j] = k]])

\* OsrsItemManager.update_prices: price_info is reset, then filled one
\* Timestamp at a time; a request that raises ends the call there.
update_prices(old, resps, answered) ==
    IF answered = Len(Timestamp)
    THEN [out |-> Return(PriceInfoAfter(resps, answered)),
          price_info |-> PriceInfoAfter(resps, answered)]
    ELSE [out |-> Raise("ConnectionError"), price_info |-> PriceInfoAfter(resps, answered)]

\* One pass of the loop of get_item over the averaged Timestamps tss: the four
\* series dicts so far (acc), or the error that ended the loop.
RECURSIVE SeriesLoop(_, _, _, _)
SeriesLoop(prices, item_id, tss, acc) ==
    IF tss = <<>>
    THEN Return(acc)
    ELSE LET ts == Head(tss)
             entry == Then(Subscript(prices, ts), LAMBDA ds : Subscript(ds, item_id))
             Put(ah, hv, al, lv) ==
                 [avg_high_price |-> (ts :> ah) @@ acc.avg_high_price,
                  high_price_volume |-> (ts :> hv) @@ acc.high_price_volume,
                  avg_low_price |-> (ts :> al) @@ acc.avg_low_price,
                  low_price_volume |-> (ts :> lv) @@ acc.low_price_volume]
         IN  IF entry.kind = "raise" /\ entry.exc = "KeyError"
             THEN SeriesLoop(prices, item_id, Tail(tss), Put(NoneV, NoneV, NoneV, NoneV))
             ELSE Then(entry, LAMBDA data :
                  Then(Subscript(data, "avgHighPrice"), LAMBDA ah :
                  Then(Subscript(data, "highPriceVolume"), LAMBDA hv :
                  Then(Subscript(data, "avgLowPrice"), LAMBDA al :
                  Then(Subscript(data, "lowPriceVolume"), LAMBDA lv :
                  SeriesLoop(prices, item_id, Tail(tss), Put(ah, hv, al, lv)))))))

NoSeries ==
    [avg_high_price |-> <<>>, high_price_volume |-> <<>>, avg_low_price |-> <<>>,
     low_price_volume |-> <<>>]

\* OsrsItemManager.get_item
get_item(info, prices, item_id) ==
    LET itm_d == value_or_none(info, item_id)
    IN  Then(Subscript(prices, LATEST), LAMBDA latest :
        LET itm_pl == value_or_none(latest, item_id)
        IN  Then(SeriesLoop(prices, item_id, AveragedTimestamps, NoSeries), LAMBDA series :
            Item(ItemArgs(item_id,
                          value_or_none(itm_d, "members"),
                          value_or_none(itm_d, "lowalch"),
                          value_or_none(itm_d, "limit"),
                          value_or_none(itm_d, "value"),
                          value_or_none(itm_d, "highalch"),
                          value_or_none(itm_d, "name"),
                          value_or_none(itm_pl, "high"),
                          value_or_none(itm_pl, "low"),
                          <<DictV(series.avg_high_price), DictV(series.high_price_volume),
                            DictV(series.avg_low_price), DictV(series.low_price_volume)>>))))

\* The loop of get_items over the ids still to visit, with the items
\* collected so far
RECURSIVE ItemsLoop(_, _, _, _)
ItemsLoop(info, prices, ids, acc) ==
    IF ids = <<>>
    THEN Return(acc)
    ELSE Then(get_item(info, prices, Head(ids)), LAMBDA item :
         ItemsLoop(info, prices, Tail(ids),
                   IF Truthy(item) THEN Append(acc, item) ELSE acc))

\* OsrsItemManager.get_items
get_items(info, prices) == ItemsLoop(info, prices, info.keys, <<>>)

\* The ids get_item is asked for: those of the listing objects, and one no
\* listing has.
QueryIds == {StrV(Str(n)) : n \in {4, 5, 6, 7, 9}}

UpdatePrices ==
    \E resps \in PriceResponses, answered \in 0..Len(Timestamp) :
        LET r == update_prices(price_info, resps, answered)
        IN  /\ price_info' = r.price_info
            /\ ret' = [op |-> "update_prices", args |-> <<>>, out |-> r.out]
            /\ UNCHANGED <<item_info, items, ge_data, fetches>>

GetItem ==
    \E item_id \in QueryIds :
        /\ ret' = [op |-> "get_item", args |-> <<item_id>>,
                   out |-> get_item(item_info, price_info, item_id)]
        /\ UNCHANGED <<item_info, price_info, items, ge_data, fetches>>

GetItems ==
    /\ ret' = [op |-> "get_items", args |-> <<>>, out |-> get_items(item_info, price_info)]
    /\ UNCHANGED <<item_info, price_info, items, ge_data, fetches>>

\* The manager after __init__ returned: update_prices stored all four
\* datasets, then item_info was built from the listing.
InitAgg ==
    /\ \E resps \in PriceResponses :
           price_info = update_prices(EmptyDict, resps, Len(Timestamp)).price_info
    /\ \E listing \in Listings : item_info = ItemInfoOf(listing)
    /\ items = <<>>
    /\ ge_data = NoneV
    /\ fetches = 0
    /\ ret = NoCall

NextAgg ==
    \/ UpdatePrices
    \/ GetItem
    \/ GetItems

SpecAgg == InitAgg /\ [][NextAgg]_vars

----------------------------------------------------------------------------
(* Item.has_attr, Item.has_timedata and the two filters *)

\* list(vars(Item)['__annotations__'])
Annotations ==
    <<"id", "members", "lowalch", "limit", "npc_value", "highalch", "name", "high_price",
      "low_price", "avg_high_price", "high_price_volume", "avg_low_price",
      "low_price_volume", "margin", "roi", "platinumtokens_link">>

\* The static attributes of Item
StaticAttributes == <<"members", "lowalch", "limit", "npc_value", "highalch", "name">>

\* The default attributes of filter_empty_timedata
SeriesAttributes ==
    <<"avg_high_price", "high_price_volume", "avg_low_price", "low_price_volume">>

\* Item.has_attr
has_attr(item, attr) == Truthy(item[attr])

\* Item.has_timedata
has_timedata(item, attr, timestamp) ==
    IF ~has_attr(item, attr)
    THEN Return(FALSE)
    ELSE Then(Subscript(item[attr], timestamp), LAMBDA v : Return(Truthy(v)))

\* The attribute loop of filter_empty_items for one item: include_item_flag
RECURSIVE IncludeItem(_, _)
IncludeItem(item, attributes) ==
    IF attributes = <<>> THEN TRUE
    ELSE IF ~has_attr(item, Head(attributes)) THEN FALSE
    ELSE IncludeItem(item, Tail(attributes))

\* OsrsItemManager.filter_empty_items
RECURSIVE filter_empty_items(_, _)
filter_empty_items(its, attributes) ==
    IF its = <<>> THEN Return(<<>>)
    ELSE Then(filter_empty_items(SubSeq(its, 1, Len(its) - 1), attributes), LAMBDA kept :
         Return(IF IncludeItem(its[Len(its)], attributes)
                THEN Append(kept, its[Len(its)])
                ELSE kept))

\* The inner loop of filter_empty_timedata: FALSE at the first timestamp
\* without data (break), TRUE when every timestamp has data
RECURSIVE TimestampLoop(_, _, _)
TimestampLoop(item, attr, timestamps) ==
    IF timestamps = <<>> THEN Return(TRUE)
    ELSE Then(has_timedata(item, attr, Head(timestamps)), LAMBDA has :
         IF ~has THEN Return(FALSE) ELSE TimestampLoop(item, attr, Tail(timestamps)))

\* The attribute loop of filter_empty_timedata for one item, flag being
\* include_item_flag so far: a missing attribute ends the loop, a timestamp
\* without data only clears the flag
RECURSIVE IncludeTimedata(_, _, _, _)
IncludeTimedata(item, attributes, timestamps, flag) ==
    IF attributes = <<>> THEN Return(flag)
    ELSE IF ~has_attr(item, Head(attributes)) THEN Return(FALSE)
    ELSE Then(TimestampLoop(item, Head(attributes), timestamps), LAMBDA ok :
         IncludeTimedata(item, Tail(attributes), timestamps, flag /\ ok))

\* OsrsItemManager.filter_empty_timedata
RECURSIVE filter_empty_timedata(_, _, _)
filter_empty_timedata(its, attributes, timestamps) ==
    IF its = <<>> THEN Return(<<>>)
    ELSE Then(filter_empty_timedata(SubSeq(its, 1, Len(its) - 1), attributes, timestamps),
              LAMBDA kept :
         Then(IncludeTimedata(its[Len(its)], attributes, timestamps, TRUE), LAMBDA inc :
         Return(IF inc THEN Append(kept, its[Len(its)]) ELSE kept)))

Series(a, b, c) == DictV((Timestamp[2] :> a) @@ (Timestamp[3] :> b) @@ (Timestamp[4] :> c))

\* Records a caller can hold: one with every field set, one with False and 0
\* among its fields and series, one with no limit and every series null-filled.
ItemFull ==
    Item(ItemArgs(StrV(Str(4)), BoolV(TRUE), IntV(7), IntV(70), IntV(18), IntV(10),
                  StrV(<<"A", " ", "w">>), IntV(22), IntV(21),
                  <<Series(IntV(22), IntV(23), IntV(24)), Series(IntV(3), IntV(4), IntV(5)),
                    Series(IntV(21), IntV(20), IntV(19)), Series(IntV(1), IntV(2), IntV(3))>>)).value

ItemZeros ==
    Item(ItemArgs(StrV(Str(5)), BoolV(FALSE), IntV(0), IntV(9), IntV(1), IntV(0),
                  StrV(<<"C", "o">>), IntV(3), IntV(3),
                  <<Series(IntV(3), IntV(3), IntV(3)), Series(IntV(0), IntV(1), IntV(1)),
                    Series(IntV(2), IntV(0), IntV(2)), Series(IntV(4), IntV(4), IntV(4))>>)).value

ItemNulls ==
    Item(ItemArgs(StrV(Str(6)), BoolV(TRUE), IntV(2), NoneV, IntV(5), IntV(3),
                  StrV(<<"b", "w">>), IntV(5), NoneV,
                  <<Series(NoneV, NoneV, NoneV), Series(NoneV, NoneV, NoneV),
                    Series(NoneV, NoneV, NoneV), Series(NoneV, NoneV, NoneV)>>)).value

SampleItems == {ItemFull, ItemZeros, ItemNulls}

SeqsUpTo(S, n) == UNION {[1..k -> S] : k \in 0..n}

Range(q) == {q[k] : k \in 1..Len(q)}

\* Argument lists of the filters: short lists, and the default of each
AttributeLists == SeqsUpTo(Range(StaticAttributes), MaxAttrs) \cup {Annotations}

SeriesAttributeLists == SeqsUpTo(Range(SeriesAttributes), MaxAttrs) \cup {SeriesAttributes}

TimestampLists == SeqsUpTo(Range(Timestamp), MaxTimestamps) \cup {AveragedTimestamps}

Prices == {NoneV} \cup {IntV(i) : i \in 0..MaxPrice}

Names == {NoneV, StrV(<<>>), StrV(<<"A", " ", "w">>)}

\* Item(...) called by the caller itself
Construct ==
    \E high \in Prices, low \in Prices, name \in Names :
        /\ ret' = [op |-> "Item", args |-> <<>>,
                   out |-> Item(ItemArgs(StrV(Str(4)), BoolV(TRUE), IntV(7), IntV(70),
                                         IntV(18), IntV(10), name, high, low,
                                         [k \in 1..4 |-> Series(NoneV, NoneV, NoneV)]))]
        /\ UNCHANGED <<item_info, price_info, items, ge_data, fetches>>

FilterEmptyItems ==
    \E attributes \in AttributeLists :
        /\ ret' = [op |-> "filter_empty_items", args |-> <<attributes>>,
                   out |-> filter_empty_items(items, attributes)]
        /\ UNCHANGED <<item_info, price_info, items, ge_data, fetches>>

FilterEmptyTimedata ==
    \E attributes \in SeriesAttributeLists, timestamps \in TimestampLists :
        /\ ret' = [op |-> "filter_empty_timedata", args |-> <<attributes, timestamps>>,
                   out |-> filter_empty_timedata(items, attributes, timestamps)]
        /\ UNCHANGED <<item_info, price_info, items, ge_data, fetches>>

\* A caller holding a list of records
InitItem ==
    /\ item_info = EmptyDict
    /\ price_info = EmptyDict
    /\ items \in SeqsUpTo(SampleItems, MaxItems)
    /\ ge_data = NoneV
    /\ fetches = 0
    /\ ret = NoCall

NextItem ==
    \/ Construct
    \/ FilterEmptyItems
    \/ FilterEmptyTimedata

SpecItem == InitItem /\ [][NextItem]_vars

----------------------------------------------------------------------------
(* Claims about the GE cache, under SpecGe *)

LazyOps == {"fetch_or_reuse", "get_ge_price_change", "get_ge_trend",
            "get_ge_today_price_change", "get_ge_current_price"}

ForcedOps == {"force_refresh", "get_ge_price_change", "get_ge_trend",
              "get_ge_today_price_change", "get_ge_current_price"}

ChangeWindows == {[cls |-> "GeTimestamp", value |-> v] : v \in {"day30", "day90", "day180"}}

PointWindows == {[cls |-> "GeTimestamp", value |-> v] : v \in {"current", "today"}}

\* The call r resolves the payload: every call does, except a percent-change
\* call turned down for its window before any read.
ResolvesPayload(r) == r.op = "get_ge_price_change" => r.args[2] \in ChangeWindows

\* C1: a lazy read on an empty cache makes exactly one request; once a payload
\* is stored (the cache is not None), a lazy read makes no request, leaves the
\* cache alone and fetch_or_reuse returns exactly the stored payload.
C1_LazyReadReusesStoredPayload ==
    [][(ret'.op \in LazyOps /\ ret'.args[1] = FALSE /\ ResolvesPayload(ret'))
        => IF ge_data = NoneV
           THEN fetches' = fetches + 1
           ELSE /\ fetches' = fetches
                /\ ge_data' = ge_data
                /\ ret'.op = "fetch_or_reuse" => ret'.out = Return(ge_data)]_vars

\* The same for the payloads that are not empty: it holds of them.
LazyReadReusesNonEmptyPayload ==
    [][(ret'.op \in LazyOps /\ ret'.args[1] = FALSE /\ ResolvesPayload(ret')
          /\ ge_data # PayloadEmpty)
        => IF ge_data = NoneV
           THEN fetches' = fetches + 1
           ELSE /\ fetches' = fetches
                /\ ge_data' = ge_data
                /\ ret'.op = "fetch_or_reuse" => ret'.out = Return(ge_data)]_vars

\* C2: a forced read makes exactly one request whatever the cache held, leaves
\* the cache equal to the payload that request returned, and force_refresh
\* returns that payload.
C2_ForcedReadFetchesAndOverwrites ==
    [][(ret'.op \in ForcedOps /\ ret'.args[1] = TRUE /\ ResolvesPayload(ret'))
        => /\ fetches' = fetches + 1
           /\ Len(ret'.reqs) = 1
           /\ ge_data' = ret'.reqs[1]
           /\ ret'.op = "force_refresh" => ret'.out = Return(ret'.reqs[1])]_vars

\* A forced read made on a populated cache that an earlier request filled with
\* another payload.
C2_Witness ==
    /\ ret.op = "force_refresh"
    /\ ret.was = "POPULATED"
    /\ fetches >= 2
    /\ ge_data = PayloadDoc
    /\ ret.out = Return(PayloadDoc)

\* C9: percent_change and trend both raise the invalid-window error (NameError)
\* for CURRENT and TODAY, and return a value only for DAY30, DAY90 and DAY180.
C9_ChangeAndTrendShareWindowDomain ==
    (ret.op \in {"get_ge_price_change", "get_ge_trend"})
        => /\ ret.args[2] \in PointWindows => ret.out = Raise("NameError")
           /\ ret.out.kind = "return" => ret.args[2] \in ChangeWindows

\* The percent-change half of it holds.
PriceChangeRejectsPointWindows ==
    (ret.op = "get_ge_price_change")
        => /\ ret.args[2] \in PointWindows => ret.out = Raise("NameError")
           /\ ret.out.kind = "return" => ret.args[2] \in ChangeWindows

----------------------------------------------------------------------------
(* Claims about get_item, get_items and update_prices, under SpecAgg *)

\* price_info as load leaves it: one whole dataset for each Timestamp
PriceInfoComplete ==
    /\ DOMAIN price_info.d = Range(Timestamp)
    /\ price_info.d[LATEST] \in LatestSets
    /\ \A ts \in Range(AveragedTimestamps) : price_info.d[ts] \in AvgSets

AverageFields == {"avgHighPrice", "highPriceVolume", "avgLowPrice", "lowPriceVolume"}

\* The id has an entry in the dataset of ts / an entry with all four sub-fields
EntryPresent(item_id, ts) == item_id \in DOMAIN price_info.d[ts].d

EntryWhole(item_id, ts) == AverageFields \subseteq DOMAIN price_info.d[ts].d[item_id].d

\* The metadata of the id names the item
NamePresent(item_id) == value_or_none(value_or_none(item_info, item_id), "name").t = "str"

\* C3: after load, get_item of an id with no metadata entry returns a record
\* whose members, lowalch, highalch, npc_value, limit and name are all None.
C3_UnknownIdIsNullFilled ==
    (ret.op = "get_item" /\ PriceInfoComplete /\ ret.args[1] \notin DOMAIN item_info.d)
        => /\ ret.out.kind = "return"
           /\ \A a \in Range(StaticAttributes) : ret.out.value[a] = NoneV

\* The records of the ids, in order, whose construction succeeds
RECURSIVE ConstructedRecords(_)
ConstructedRecords(ids) ==
    IF ids = <<>> THEN <<>>
    ELSE LET o == get_item(item_info, price_info, Head(ids))
         IN  (IF o.kind = "return" THEN <<o.value>> ELSE <<>>) \o ConstructedRecords(Tail(ids))

\* C4: get_items never raises: whatever load put in item_info and price_info,
\* it returns the records of the known ids whose construction succeeded and
\* leaves the others out.
C4_GetItemsNeverRaises ==
    (ret.op = "get_items" /\ PriceInfoComplete)
        => ret.out = Return(ConstructedRecords(item_info.keys))

\* The per-bucket contract of get_item for the call in ret: a KeyError when
\* some bucket's entry lacks a sub-field; otherwise a record whose four series
\* hold None at a bucket with no entry and the entry's values at the others.
BucketContract ==
    LET item_id == ret.args[1]
        tss == Range(AveragedTimestamps)
    IN  IF \E ts \in tss : EntryPresent(item_id, ts) /\ ~EntryWhole(item_id, ts)
        THEN ret.out = Raise("KeyError")
        ELSE /\ ret.out.kind = "return"
             /\ \A ts \in tss :
                    LET it == ret.out.value
                        got == <<it.avg_high_price.d[ts], it.high_price_volume.d[ts],
                                 it.avg_low_price.d[ts], it.low_price_volume.d[ts]>>
                    IN  IF EntryPresent(item_id, ts)
                        THEN LET e == price_info.d[ts].d[item_id].d
                             IN  got = <<e.avgHighPrice, e.highPriceVolume, e.avgLowPrice,
                                         e.lowPriceVolume>>
                        ELSE got = <<NoneV, NoneV, NoneV, NoneV>>

\* C5: in get_item, for each averaged bucket: no entry for the id gives four
\* None and no error, a whole entry is copied unchanged, an entry lacking a
\* sub-field makes get_item fail with a KeyError.
C5_BucketsNullFilledCopiedOrKeyError ==
    (ret.op = "get_item" /\ PriceInfoComplete) => BucketContract

\* The same contract for the ids whose metadata has a name: it holds of them.
BucketContractForNamedIds ==
    (ret.op = "get_item" /\ PriceInfoComplete /\ NamePresent(ret.args[1])) => BucketContract

\* C10: after load and any refresh_prices calls, failed ones included,
\* price_info has a whole dataset for each of the four Timestamps.
C10_PriceInfoAlwaysWhole == PriceInfoComplete

----------------------------------------------------------------------------
(* Claims about Item and the filters, under SpecItem *)

\* C6: a record built from two non-null prices has margin = high - low and
\* roi = margin / low * 100; with a null price both are None.  (Stated where
\* the quotient is defined, low_price # 0.)
C6_MarginAndRoiFromNonNullPrices ==
    (ret.op = "Item" /\ ret.out.kind = "return")
        => LET it == ret.out.value
           IN  IF it.high_price # NoneV /\ it.low_price # NoneV
               THEN it.low_price.i # 0
                        => /\ it.margin = IntV(it.high_price.i - it.low_price.i)
                           /\ it.roi = FloatE(it.high_price.i - it.low_price.i,
                                              it.low_price.i, 2)
               ELSE it.margin = NoneV /\ it.roi = NoneV

\* What does hold: margin and roi are computed from two prices that are
\* neither None nor 0, and are None otherwise.
MarginAndRoiFromNonZeroPrices ==
    (ret.op = "Item" /\ ret.out.kind = "return")
        => LET it == ret.out.value
           IN  IF it.high_price \notin {NoneV, IntV(0)} /\ it.low_price \notin {NoneV, IntV(0)}
               THEN /\ it.margin = IntV(it.high_price.i - it.low_price.i)
                    /\ it.roi = FloatE(it.high_price.i - it.low_price.i, it.low_price.i, 2)
               ELSE it.margin = NoneV /\ it.roi = NoneV

\* C7: filter_complete returns, in order, exactly the records whose every
\* required field is other than None; False and 0 count as present.
C7_FilterKeepsEveryNonNoneRecord ==
    (ret.op = "filter_empty_items")
        => ret.out = Return(SelectSeq(items, LAMBDA it :
                                \A a \in Range(ret.args[1]) : it[a] # NoneV))

\* What does hold: the records kept are those whose every required field is
\* truthy.
FilterKeepsEveryTruthyRecord ==
    (ret.op = "filter_empty_items")
        => ret.out = Return(SelectSeq(items, LAMBDA it :
                                \A a \in Range(ret.args[1]) : Truthy(it[a])))

\* C8: filter_complete_series returns, in order, exactly the records whose
\* series value at every required (field, bucket) pair is other than None; an
\* average or a volume of 0 counts as present.
C8_FilterKeepsEveryNonNoneSeries ==
    (ret.op = "filter_empty_timedata" /\ Range(ret.args[2]) \subseteq Range(AveragedTimestamps))
        => ret.out = Return(SelectSeq(items, LAMBDA it :
                                \A a \in Range(ret.args[1]), ts \in Range(ret.args[2]) :
                                    it[a].d[ts] # NoneV))

\* What does hold: the records kept are those whose series value at every
\* required pair is truthy.
FilterKeepsEveryTruthySeries ==
    (ret.op = "filter_empty_timedata" /\ Range(ret.args[2]) \subseteq Range(AveragedTimestamps))
        => ret.out = Return(SelectSeq(items, LAMBDA it :
                                \A a \in Range(ret.args[1]), ts \in Range(ret.args[2]) :
                                    Truthy(it[a].d[ts])))

====
